---- MODULE Spec2Model ----
(***************************************************************************)
(* Model of the image helpers of src/vision/image.rs (load, save, resize   *)
(* and the dimension permutations they are built from, with the ownership  *)
(* of the native tensor pointers) and of the actor-critic example          *)
(* examples/reinforcement-learning/a2c.rs (FrameStack and run).            *)
(***************************************************************************)
EXTENDS Integers, Sequences, FiniteSets, TLC

VARIABLES
    heap,         \* native tensors, indexed by pointer (never reused)
    callerOwned,  \* pointers whose Tensor handle the caller holds
    last,         \* what the last call of load / save / resize did
    t0, cur, ops, \* a tensor, the result of permuting it, the permutations applied
    fs, imgs,     \* a FrameStack and the images passed to update so far
    pc, upd, s, s_actions, log, result   \* a2c::run

imageVars == <<heap, callerOwned, last>>
permVars == <<t0, cur, ops>>
frameVars == <<fs, imgs>>
runVars == <<pc, upd, s, s_actions, log, result>>
vars == <<imageVars, permVars, frameVars, runVars>>

----------------------------------------------------------------------------
(* Bounds *)

MaxDim == 2        \* every dimension of an image is in 1..MaxDim
MaxPtr == 6        \* native tensors allocated in one behaviour
MaxProcs == 2      \* FrameStack::new is tried with nprocs in 1..MaxProcs
MaxStack == 4      \* ... and nstack in 1..MaxStack
MaxImg == 2        \* an image passed to update is one of 0..MaxImg, 0 all zero
MaxCalls == 5      \* calls of FrameStack::update in one behaviour
NumActions == 2    \* size of the environment's action space
UPDATES == 2       \* updates of a2c::run (1000000 in the source)

NPROCS == 16
NSTEPS == 5
NSTACK == 4
FrameSize == 84

Dim == 1..MaxDim

----------------------------------------------------------------------------
(* Tensors: a shape and, for every index, the element stored there.        *)

Indices(shape) ==
    {idx \in [1..Len(shape) -> 1..MaxDim + 1] :
        \A d \in 1..Len(shape) : idx[d] <= shape[d]}

\* A freshly produced tensor; its element at idx is tagged with idx.
NewTensor(shape) == [shape |-> shape, elem |-> [idx \in Indices(shape) |-> idx]]

\* Tensor::permute(dims): dimension k of the result is dimension dims[k]
\* (0-based) of the input, and the elements move with their dimensions.
Permute(t, dims) ==
    LET shape == [k \in 1..Len(dims) |-> t.shape[dims[k] + 1]]
        SrcIdx(idx) == [d \in 1..Len(dims) |->
                           idx[CHOOSE k \in 1..Len(dims) : dims[k] + 1 = d]]
    IN  [shape |-> shape, elem |-> [idx \in Indices(shape) |-> t.elem[SrcIdx(idx)]]]

\* hwc_to_chw with the permutation of chw_to_hwc.
hwc_to_chw_rotated(tensor) == Permute(tensor, <<1, 2, 0>>)

hwc_to_chw(tensor) == Permute(tensor, <<2, 0, 1>>)

chw_to_hwc(tensor) == Permute(tensor, <<1, 2, 0>>)

----------------------------------------------------------------------------
(* i64 values are four 16-bit limbs, least significant first; c_int is 32   *)
(* bits wide.                                                              *)

Limb == 65536

I64(n) == <<n % Limb, n \div Limb, 0, 0>>

\* `x as c_int`: keeps the low 32 bits, read as two's complement.
as_c_int(x) ==
    IF x[2] >= Limb \div 2 THEN (x[2] - Limb) * Limb + x[1]
                           ELSE x[2] * Limb + x[1]

\* out_w / out_h arguments tried: 1, 2 and 2^32 + 1.
OutSizes == {I64(1), I64(2), <<1, 0, 1, 0>>}

----------------------------------------------------------------------------
(* The native image functions, as documented on their wrappers.            *)

\* An image file: readable or not, and its width, height and channels.
Files == [ok : {TRUE}, w : Dim, h : Dim, c : Dim]
            \cup {[ok |-> FALSE, w |-> 1, h |-> 1, c |-> 1]}

\* "On success returns a tensor of shape [width, height, channels]."
load_hwc(file) == NewTensor(<<file.w, file.h, file.c>>)

\* "Expects a tensor of shape [width, height, channels].
\*  On success returns a tensor of shape [width, height, channels]."
resize_hwc(t, out_w, out_h) ==
    NewTensor(<<as_c_int(out_w), as_c_int(out_h), t.shape[3]>>)

----------------------------------------------------------------------------
(* Native pointers and the Tensor handles that own them.                   *)

\* Tensor { c_tensor }: a fresh native tensor wrapped in one handle.
Alloc(h, val, owner) ==
    Append(h, [st |-> "live", val |-> val, owner |-> owner, handles |-> 1,
               rel |-> <<>>, uar |-> FALSE])

\* A native call reads the tensor behind p.
Use(h, p) == [h EXCEPT ![p].uar = @ \/ h[p].st # "live"]

\* Drop of the handle owning p, run by `by`.
Drop(h, p, by) == [h EXCEPT ![p].st = "freed", ![p].rel = Append(@, by)]

NoCall == [op |-> "none", ok |-> TRUE, arg |-> 0, ret |-> 0,
           file |-> [ok |-> FALSE, w |-> 1, h |-> 1, c |-> 1],
           out_w |-> I64(1), out_h |-> I64(1),
           native_w |-> 1, native_h |-> 1, saved |-> <<>>]

others == <<permVars, frameVars, runVars>>

\* load returning a handle on the pointer its local `tensor` owns.
load_aliased(file) ==
    /\ Len(heap) + 2 <= MaxPtr
    /\ IF ~file.ok
       THEN /\ last' = [NoCall EXCEPT !.op = "load", !.ok = FALSE, !.file = file]
            /\ UNCHANGED <<heap, callerOwned>>
       ELSE LET h1 == Alloc(heap, load_hwc(file), "load.tensor")
                tensor == Len(h1)
                h2 == [Use(h1, tensor) EXCEPT ![tensor].handles = @ + 1]
                h3 == Drop(h2, tensor, "load")
            IN  /\ heap' = h3
                /\ callerOwned' = callerOwned \cup {tensor}
                /\ last' = [NoCall EXCEPT !.op = "load", !.file = file,
                               !.ret = tensor]
    /\ UNCHANGED others

\* pub fn load(path): file is what the path names.
load(file) ==
    /\ Len(heap) + 2 <= MaxPtr
    /\ IF ~file.ok
       THEN /\ last' = [NoCall EXCEPT !.op = "load", !.ok = FALSE, !.file = file]
            /\ UNCHANGED <<heap, callerOwned>>
       ELSE LET h1 == Alloc(heap, load_hwc(file), "load.tensor")
                tensor == Len(h1)
                h2 == Alloc(Use(h1, tensor), hwc_to_chw(h1[tensor].val), "caller")
                ret == Len(h2)
                h3 == Drop(h2, tensor, "load")
            IN  /\ heap' = h3
                /\ callerOwned' = callerOwned \cup {ret}
                /\ last' = [NoCall EXCEPT !.op = "load", !.file = file, !.ret = ret]
    /\ UNCHANGED others

\* pub fn save(t, path): pathOk is whether the file can be written.
save(t, pathOk) ==
    /\ t \in callerOwned
    /\ Len(heap) + 1 <= MaxPtr
    /\ LET h1 == Alloc(Use(heap, t), chw_to_hwc(heap[t].val), "save.tmp")
           tmp == Len(h1)
           h2 == IF pathOk THEN Use(h1, tmp) ELSE h1
           h3 == Drop(h2, tmp, "save")
       IN  /\ heap' = h3
           /\ last' = [NoCall EXCEPT !.op = "save", !.ok = pathOk, !.arg = t,
                          !.saved = IF pathOk THEN h1[tmp].val.shape ELSE <<>>]
    /\ UNCHANGED callerOwned
    /\ UNCHANGED others

\* pub fn resize(t, out_w, out_h)
resize(t, out_w, out_h) ==
    /\ t \in callerOwned
    /\ Len(heap) + 3 <= MaxPtr
    /\ LET h1 == Alloc(Use(heap, t), chw_to_hwc(heap[t].val), "resize.tmp1")
           tmp1 == Len(h1)
           h2 == Alloc(Use(h1, tmp1), resize_hwc(h1[tmp1].val, out_w, out_h),
                       "resize.tmp2")
           tmp2 == Len(h2)
           h3 == Alloc(Use(h2, tmp2), hwc_to_chw(h2[tmp2].val), "caller")
           ret == Len(h3)
           h4 == Drop(Drop(h3, tmp2, "resize"), tmp1, "resize")
       IN  /\ heap' = h4
           /\ callerOwned' = callerOwned \cup {ret}
           /\ last' = [NoCall EXCEPT !.op = "resize", !.arg = t, !.ret = ret,
                          !.out_w = out_w, !.out_h = out_h,
                          !.native_w = as_c_int(out_w),
                          !.native_h = as_c_int(out_h)]
    /\ UNCHANGED others

\* The caller lets go of a tensor it owns.
drop(t) ==
    /\ t \in callerOwned
    /\ heap' = Drop(heap, t, "caller")
    /\ callerOwned' = callerOwned \ {t}
    /\ last' = [NoCall EXCEPT !.op = "drop", !.arg = t]
    /\ UNCHANGED others

Load == \E file \in Files : load(file)
Save == \E t \in callerOwned, pathOk \in BOOLEAN : save(t, pathOk)
Resize == \E t \in callerOwned, out_w \in OutSizes, out_h \in OutSizes :
              resize(t, out_w, out_h)
CallerDrop == \E t \in callerOwned : drop(t)

----------------------------------------------------------------------------
(* FrameStack: data is a tensor of shape [nprocs, nstack, 84, 84]; slot[i]  *)
(* is what data.narrow(1, i, 1) shows, an image or 0 for all zeros.        *)

Imgs == 0..MaxImg

FrameStack_new(nprocs, nstack) ==
    [data |-> [shape |-> <<nprocs, nstack, FrameSize, FrameSize>>,
               slot |-> [i \in 0..nstack - 1 |-> 0]],
     nprocs |-> nprocs,
     nstack |-> nstack]

\* let slice = |i| self.data.narrow(1, i, 1)
slice(data, i) == data.slot[i]

\* slice(i).copy_(src): writes through the view into data.
copy_(data, i, src) == [data EXCEPT !.slot[i] = src]

\* The loop of update run from the last slot down to the first.
RECURSIVE shift_descending(_, _, _)
shift_descending(data, i, nstack) ==
    IF i >= nstack THEN data
    ELSE shift_descending(copy_(data, nstack - i - 1, slice(data, nstack - i)),
                          i + 1, nstack)

\* for i in 1..self.nstack { slice(i - 1).copy_(&slice(i)) }, from i on.
RECURSIVE shift(_, _, _)
shift(data, i, nstack) ==
    IF i >= nstack THEN data
    ELSE shift(copy_(data, i - 1, slice(data, i)), i + 1, nstack)

\* FrameStack::update(img) applied to the frame stack f.
update(f, img) ==
    [f EXCEPT !.data = copy_(shift(f.data, 1, f.nstack), f.nstack - 1, img)]

ImageIdle ==
    /\ heap = <<>>
    /\ callerOwned = {}
    /\ last = NoCall

PermIdle ==
    /\ t0 = NewTensor(<<1, 1, 1>>)
    /\ cur = t0
    /\ ops = <<>>

FrameIdle ==
    /\ fs = FrameStack_new(1, 1)
    /\ imgs = <<>>

RunIdle ==
    /\ pc = "idle"
    /\ upd = 0
    /\ s = 0
    /\ s_actions = <<>>
    /\ log = <<>>
    /\ result = "none"

Init == ImageIdle /\ PermIdle /\ FrameIdle /\ RunIdle

Next == Load \/ Save \/ Resize \/ CallerDrop

Spec == Init /\ [][Next]_vars

----------------------------------------------------------------------------
(* The permutations on their own: a rank-3 tensor and up to two of them.   *)

PermDim == 1..MaxDim + 1

ApplyHwcToChw ==
    /\ Len(ops) < 2
    /\ cur' = hwc_to_chw(cur)
    /\ ops' = Append(ops, "hwc_to_chw")
    /\ UNCHANGED <<t0, imageVars, frameVars, runVars>>

ApplyChwToHwc ==
    /\ Len(ops) < 2
    /\ cur' = chw_to_hwc(cur)
    /\ ops' = Append(ops, "chw_to_hwc")
    /\ UNCHANGED <<t0, imageVars, frameVars, runVars>>

InitPerm ==
    /\ t0 \in {NewTensor(<<a, b, c>>) : a \in PermDim, b \in PermDim, c \in PermDim}
    /\ cur = t0
    /\ ops = <<>>
    /\ ImageIdle /\ FrameIdle /\ RunIdle

NextPerm == ApplyHwcToChw \/ ApplyChwToHwc

SpecPerm == InitPerm /\ [][NextPerm]_vars

----------------------------------------------------------------------------
(* FrameStack on its own: new, then calls of update.                       *)

Update ==
    /\ Len(imgs) < MaxCalls
    /\ \E img \in Imgs :
          /\ fs' = update(fs, img)
          /\ imgs' = Append(imgs, img)
    /\ UNCHANGED <<imageVars, permVars, runVars>>

InitFrameStack ==
    /\ \E nprocs \in 1..MaxProcs, nstack \in 1..MaxStack :
          fs = FrameStack_new(nprocs, nstack)
    /\ imgs = <<>>
    /\ ImageIdle /\ PermIdle /\ RunIdle

NextFrameStack == Update

SpecFrameStack == InitFrameStack /\ [][NextFrameStack]_vars

----------------------------------------------------------------------------
(* a2c::run.  log is the sequence of environment and optimizer events.     *)

Actions == 0..NumActions - 1

Event(ev, idx, ok) == [ev |-> ev, s |-> idx, ok |-> ok]

\* let env = GymEnv::new(ENV_NAME, Some(NPROCS))?; ... FrameStack::new
EnvNew ==
    /\ pc = "start"
    /\ \E ok \in BOOLEAN :
          /\ log' = Append(log, Event("new", 0, ok))
          /\ IF ok THEN /\ pc' = "reset"
                        /\ fs' = FrameStack_new(NPROCS, NSTACK)
                        /\ UNCHANGED result
                   ELSE /\ pc' = "done"
                        /\ result' = "Err"
                        /\ UNCHANGED fs
    /\ UNCHANGED <<upd, s, s_actions, imgs, imageVars, permVars>>

\* let _ = frame_stack.update(&env.reset()?); and the zeroed s_ tensors
EnvReset ==
    /\ pc = "reset"
    /\ \E ok \in BOOLEAN, obs \in Imgs :
          /\ log' = Append(log, Event("reset", 0, ok))
          /\ IF ok THEN /\ pc' = "loop"
                        /\ fs' = update(fs, obs)
                        /\ imgs' = Append(imgs, obs)
                        /\ s_actions' = [i \in 0..NSTEPS - 1 |-> 0]
                        /\ UNCHANGED result
                   ELSE /\ pc' = "done"
                        /\ result' = "Err"
                        /\ UNCHANGED <<fs, imgs, s_actions>>
    /\ UNCHANGED <<upd, s, imageVars, permVars>>

\* One pass of `for s in 0..NSTEPS` that goes on after a failed env.step.
EnvStep_unchecked(action, ok) ==
    /\ pc = "loop" /\ upd < UPDATES /\ s < NSTEPS
    /\ log' = Append(log, Event("step", s, ok))
    /\ s_actions' = [s_actions EXCEPT ![s] = action]
    /\ s' = s + 1
    /\ UNCHANGED <<pc, result>>
    /\ UNCHANGED <<upd, frameVars, imageVars, permVars>>

\* One pass of `for s in 0..NSTEPS`: action is actions[0], ok the outcome
\* of env.step.
EnvStep(action, ok) ==
    /\ pc = "loop" /\ upd < UPDATES /\ s < NSTEPS
    /\ log' = Append(log, Event("step", s, ok))
    /\ IF ok THEN /\ s_actions' = [s_actions EXCEPT ![s] = action]
                  /\ s' = s + 1
                  /\ UNCHANGED <<pc, result>>
             ELSE /\ pc' = "done"
                  /\ result' = "Err"
                  /\ UNCHANGED <<s, s_actions>>
    /\ UNCHANGED <<upd, frameVars, imageVars, permVars>>

Step == \E action \in Actions, ok \in BOOLEAN : EnvStep(action, ok)

\* The rest of one update: returns, losses and opt.backward_step(&loss).
BackwardStep ==
    /\ pc = "loop" /\ upd < UPDATES /\ s = NSTEPS
    /\ log' = Append(log, Event("opt", NSTEPS, TRUE))
    /\ upd' = upd + 1
    /\ s' = 0
    /\ UNCHANGED <<pc, result, s_actions, frameVars, imageVars, permVars>>

\* Ok(()) once `for _update_index in 0..UPDATES` is over.
Return ==
    /\ pc = "loop" /\ upd >= UPDATES
    /\ pc' = "done"
    /\ result' = "Ok"
    /\ UNCHANGED <<log, upd, s, s_actions, frameVars, imageVars, permVars>>

InitRun ==
    /\ pc = "start"
    /\ upd = 0
    /\ s = 0
    /\ s_actions = <<>>
    /\ log = <<>>
    /\ result = "none"
    /\ ImageIdle /\ PermIdle /\ FrameIdle

NextRun == EnvNew \/ EnvReset \/ Step \/ BackwardStep \/ Return

SpecRun == InitRun /\ [][NextRun]_vars

----------------------------------------------------------------------------
(* Claims about the image helpers *)

Shape(p) == heap[p].val.shape

\* C1: every successful load returns a tensor of shape [channel, height,
\* width] of the image, load_hwc delivering [width, height, channels].
C1_LoadReturnsCHW ==
    (last.op = "load" /\ last.ok) =>
        Shape(last.ret) = <<last.file.c, last.file.h, last.file.w>>

\* C2: resize returns a tensor of shape [channel, out_h, out_w], and the
\* native resizer is handed out_w and out_h themselves.
C2_ResizeShape ==
    last.op = "resize" =>
        /\ I64(last.native_w) = last.out_w
        /\ I64(last.native_h) = last.out_h
        /\ I64(Shape(last.ret)[1]) = I64(Shape(last.arg)[1])
        /\ I64(Shape(last.ret)[2]) = last.out_h
        /\ I64(Shape(last.ret)[3]) = last.out_w

\* C3: save hands the native saver a tensor of shape [width, height,
\* channels] of its [channel, height, width] input.
C3_SaveHandsWHC ==
    (last.op = "save" /\ last.ok) =>
        last.saved = <<Shape(last.arg)[3], Shape(last.arg)[2], Shape(last.arg)[1]>>

Intermediate == {"load.tensor", "save.tmp", "resize.tmp1", "resize.tmp2"}

ReleasedBy(owner) ==
    CASE owner = "load.tensor" -> "load"
      [] owner = "save.tmp" -> "save"
      [] OTHER -> "resize"

\* C4: every native pointer is owned by exactly one handle and released at
\* most once; the intermediate tensors of load, save and resize are released
\* by the function that made them, exactly once, before it returns; a
\* returned tensor and the caller's input are released by no function, only
\* by the caller; no pointer is used after its release.
C4_Ownership ==
    \A p \in DOMAIN heap :
        /\ heap[p].handles = 1
        /\ Len(heap[p].rel) <= 1
        /\ ~heap[p].uar
        /\ heap[p].st = "freed" <=> Len(heap[p].rel) = 1
        /\ heap[p].owner \in Intermediate =>
               heap[p].rel = <<ReleasedBy(heap[p].owner)>>
        /\ heap[p].owner = "caller" =>
               /\ heap[p].rel \in {<<>>, <<"caller">>}
               /\ heap[p].rel = <<>> <=> p \in callerOwned

C4_Witness ==
    /\ last.op = "drop"
    /\ heap[last.arg].rel = <<"caller">>
    /\ \E p, q, r \in DOMAIN heap :
          /\ heap[p].owner = "resize.tmp1" /\ heap[p].rel = <<"resize">>
          /\ heap[q].owner = "resize.tmp2" /\ heap[q].rel = <<"resize">>
          /\ heap[r].owner = "caller" /\ r > q /\ r \in callerOwned
          /\ heap[r].st = "live"
    /\ \E p \in DOMAIN heap :
          heap[p].owner = "load.tensor" /\ heap[p].rel = <<"load">>

\* C7: chw_to_hwc after hwc_to_chw, and hwc_to_chw after chw_to_hwc, give
\* back the tensor: the same dimension sizes in the same order and every
\* element at its original index.
C7_PermInverse ==
    (ops = <<"hwc_to_chw", "chw_to_hwc">> \/ ops = <<"chw_to_hwc", "hwc_to_chw">>) =>
        /\ cur.shape = t0.shape
        /\ \A idx \in Indices(t0.shape) : cur.elem[idx] = t0.elem[idx]

C7_Witness ==
    /\ ops = <<"hwc_to_chw", "chw_to_hwc">>
    /\ t0.shape = <<1, 2, 3>>
    /\ cur = t0

----------------------------------------------------------------------------
(* Claims about the example *)

Window ==
    LET k == Len(imgs)
        n == fs.nstack
    IN  /\ DOMAIN fs.data.slot = 0..n - 1
        /\ \A j \in 0..n - 1 :
              fs.data.slot[n - 1 - j] = IF j < k THEN imgs[k - j] ELSE 0
        /\ fs.data.shape = <<fs.nprocs, fs.nstack, FrameSize, FrameSize>>

OneUpdate ==
    /\ fs'.nprocs = fs.nprocs
    /\ fs'.nstack = fs.nstack
    /\ fs'.data.shape = fs.data.shape
    /\ imgs' # imgs =>
          /\ \A i \in 1..fs.nstack - 1 : fs'.data.slot[i - 1] = fs.data.slot[i]
          /\ fs'.data.slot[fs.nstack - 1] = imgs'[Len(imgs')]

\* C5: after update(img_1), ..., update(img_k) slot nstack-1-j holds
\* img_(k-j) for j < min(k, nstack) and the other slots are zero; nprocs,
\* nstack and the shape of data never change; one update moves the old
\* slot i to slot i-1 for i in 1..nstack-1 and drops the old slot 0.
C5_SlidingWindow == []Window /\ [][OneUpdate]_vars

C5_Witness ==
    /\ fs.nstack = NSTACK
    /\ Len(imgs) = NSTACK + 1
    /\ imgs = <<1, 2, 1, 0, 2>>
    /\ fs.data.slot = [i \in 0..NSTACK - 1 |-> imgs[i + 2]]

ExpectedEv(i) ==
    IF i = 1 THEN "new"
    ELSE IF i = 2 THEN "reset"
    ELSE IF (i - 3) % (NSTEPS + 1) < NSTEPS THEN "step" ELSE "opt"

ExpectedS(i) == IF i <= 2 THEN 0 ELSE (i - 3) % (NSTEPS + 1)

FullRun == 2 + UPDATES * (NSTEPS + 1)

\* C6: the events of run are new, reset, then per update NSTEPS steps
\* s = 0..NSTEPS-1 and one optimizer step; a failed new, reset or step is
\* the last event and run has returned its error; run returns Ok(()) only
\* after exactly UPDATES complete updates.
C6_RunOrder ==
    /\ \A i \in 1..Len(log) :
          /\ log[i].ev = ExpectedEv(i)
          /\ log[i].s = ExpectedS(i)
          /\ i < Len(log) => log[i].ok
    /\ Len(log) <= FullRun
    /\ (Len(log) > 0 /\ ~log[Len(log)].ok) => (pc = "done" /\ result = "Err")
    /\ result = "Err" => (pc = "done" /\ Len(log) > 0 /\ ~log[Len(log)].ok)
    /\ result = "Ok" =>
          /\ pc = "done"
          /\ Len(log) = FullRun
          /\ \A i \in 1..Len(log) : log[i].ok
    /\ (pc = "done") = (result # "none")
    /\ upd = Cardinality({i \in 1..Len(log) : log[i].ev = "opt"})

C6_Witness ==
    /\ pc = "done" /\ result = "Ok"
    /\ Cardinality({i \in 1..Len(log) : log[i].ev = "step"}) = UPDATES * NSTEPS
    /\ Cardinality({i \in 1..Len(log) : log[i].ev = "opt"}) = UPDATES

====
